---- MODULE Spec2Model ----
\* A model of the data-ingestion core of hcl: the FetcherLoop worker thread and
\* the three reading algorithms of Fetcher (src/data/fetcher.rs), and the
\* Schema that maps header fields to roles and rows to slices
\* (src/data/schema.rs).
\*
\* Text is a sequence of one-character strings, so that split(','), trim() and
\* parse::<f64>() are computed rather than assumed.  Option<T> is a sequence
\* of length <= 1.  Column indices are 0-based as in the source.
EXTENDS Integers, Sequences, FiniteSets, TLC

\* ------------------------------------------------------------------ bounds
\* trigger() calls over a run
MaxTriggers == 3
\* lines delivered by the sources over a run (all passes together)
MaxReads == 3
\* fields of a header or of a row given to Schema in SchemaSpec
MaxFields == 3

\* ------------------------------------------------------------ Option<T>
None == <<>>
Some(v) == <<v>>
IsSome(o) == Len(o) = 1

\* ------------------------------------------------------------------ text
Str1(a) == <<a>>
Str2(a, b) == <<a, b>>
Str3(a, b, c) == <<a, b, c>>
EmptyStr == <<>>

\* str::split(','): the fields between the commas; "" gives one empty field.
RECURSIVE SplitFrom(_, _, _)
SplitFrom(l, i, cur) ==
    IF i > Len(l) THEN <<cur>>
    ELSE IF l[i] = "," THEN <<cur>> \o SplitFrom(l, i + 1, EmptyStr)
    ELSE SplitFrom(l, i + 1, Append(cur, l[i]))

split(l) == SplitFrom(l, 1, EmptyStr)

\* char::is_whitespace, the Unicode White_Space property: space, tab, line
\* feed, vertical tab, form feed, carriage return, next line (U+0085),
\* no-break space (U+00A0) and ogham space mark (U+1680).  The other
\* characters of the property (U+2000 to U+200A, U+2028, U+2029, U+202F,
\* U+205F, U+3000) are no characters of a string here, so text that holds
\* them is outside the model.
WhiteSpace == {" ", "\t", "\n", "", "\f", "\r", "", " ", " "}

\* str::trim_start()
RECURSIVE TrimStart(_)
TrimStart(s) == IF s # EmptyStr /\ Head(s) \in WhiteSpace THEN TrimStart(Tail(s)) ELSE s

\* str::trim_end()
RECURSIVE TrimEnd(_)
TrimEnd(s) ==
    IF s # EmptyStr /\ s[Len(s)] \in WhiteSpace
    THEN TrimEnd(SubSeq(s, 1, Len(s) - 1)) ELSE s

\* str::trim(): leading and trailing whitespace removed.
trim(s) == TrimEnd(TrimStart(s))

\* ------------------------------------------------------------------- f64
\* The first and the last position of a sequence of digits that does not hold 0
\* (0 when there is none), and the sequence without its leading zeros.
FirstNonZero(a) ==
    IF \A k \in 1..Len(a) : a[k] = 0 THEN 0
    ELSE CHOOSE k \in 1..Len(a) : a[k] # 0 /\ \A j \in 1..(k - 1) : a[j] = 0

LastNonZero(a) ==
    IF \A k \in 1..Len(a) : a[k] = 0 THEN 0
    ELSE CHOOSE k \in 1..Len(a) : a[k] # 0 /\ \A j \in (k + 1)..Len(a) : a[j] = 0

StripZeros(a) ==
    IF FirstNonZero(a) = 0 THEN <<>> ELSE SubSeq(a, FirstNonZero(a), Len(a))

TrailingZeros(a) == Len(a) - LastNonZero(a)

Zeros(n) == [i \in 1..n |-> 0] \o <<>>

\* A natural number of any size, in limbs of LimbDigits decimal digits, most
\* significant first, without leading zero limbs (zero is the empty sequence).
LimbDigits == 8
LimbBase == 100000000

RECURSIVE Pow10(_)
Pow10(n) == IF n = 0 THEN 1 ELSE 10 * Pow10(n - 1)

\* The value of the digits a of one limb, after the value acc of the digits
\* before them
RECURSIVE LimbValue(_, _)
LimbValue(a, acc) ==
    IF a = <<>> THEN acc
    ELSE LimbValue(Tail(a), acc * 10 + Head(a))

BigFromDigits(digits) ==
    LET d == StripZeros(digits)
        n == Len(d)
        cnt == (n + LimbDigits - 1) \div LimbDigits
        hi(j) == n - LimbDigits * (cnt - j)
        lo(j) == IF hi(j) - LimbDigits + 1 < 1 THEN 1 ELSE hi(j) - LimbDigits + 1
    IN [j \in 1..cnt |-> LimbValue(SubSeq(d, lo(j), hi(j)), 0)] \o <<>>

BigToDigits(a) ==
    StripZeros([i \in 1..(LimbDigits * Len(a)) |->
                   (a[(i - 1) \div LimbDigits + 1]
                       \div Pow10(LimbDigits - 1 - ((i - 1) % LimbDigits))) % 10] \o <<>>)

\* -1, 0 or 1 as a is below, equal to or above b
BigCmp(a, b) ==
    IF Len(a) < Len(b) THEN -1
    ELSE IF Len(a) > Len(b) THEN 1
    ELSE IF a = b THEN 0
    ELSE LET i == CHOOSE i \in 1..Len(a) :
                     a[i] # b[i] /\ \A j \in 1..(i - 1) : a[j] = b[j]
         IN IF a[i] < b[i] THEN -1 ELSE 1

\* 2 * a + bit: the carry into a limb comes from the limb to its right alone
BigDoublePlus(a, bit) ==
    LET n == Len(a)
        cin(i) == IF i = n THEN bit ELSE IF 2 * a[i + 1] >= LimbBase THEN 1 ELSE 0
        low == [i \in 1..n |-> (2 * a[i] + cin(i)) % LimbBase] \o <<>>
    IN IF n = 0 THEN (IF bit = 1 THEN <<1>> ELSE <<>>)
       ELSE IF 2 * a[1] >= LimbBase THEN <<1>> \o low
       ELSE low

BigDouble(a) == BigDoublePlus(a, 0)

\* 2^n * a (the half-way product is computed before it is doubled on)
RECURSIVE BigDoubleN(_, _)
BigDoubleN(a, n) ==
    IF n = 0 THEN a
    ELSE IF n = 1 THEN BigDouble(a)
    ELSE LET h == BigDoubleN(a, n \div 2) IN
         IF Len(h) >= 0 THEN BigDoubleN(h, n - n \div 2) ELSE h

\* a \div 2
BigHalf(a) ==
    LET q == [i \in 1..Len(a) |->
                ((IF i > 1 THEN a[i - 1] % 2 ELSE 0) * LimbBase + a[i]) \div 2] \o <<>>
    IN IF q # <<>> /\ q[1] = 0 THEN Tail(q) ELSE q

\* 5 * a
BigTimes5(a) ==
    LET n == Len(a)
        cin(i) == IF i = n THEN 0 ELSE (5 * a[i + 1]) \div LimbBase
        low == [i \in 1..n |-> (5 * a[i] + cin(i)) % LimbBase] \o <<>>
    IN IF n > 0 /\ (5 * a[1]) \div LimbBase > 0
       THEN <<(5 * a[1]) \div LimbBase>> \o low
       ELSE low

\* 5^n * a
RECURSIVE BigTimes5N(_, _)
BigTimes5N(a, n) ==
    IF n = 0 THEN a
    ELSE IF n = 1 THEN BigTimes5(a)
    ELSE LET h == BigTimes5N(a, n \div 2) IN
         IF Len(h) >= 0 THEN BigTimes5N(h, n - n \div 2) ELSE h

\* a - b, for a >= b: a limb borrows when, to its right, the first limb of a
\* that differs from the limb of b under it is the smaller one
BigSub(a, b) ==
    LET n == Len(a)
        sub(i) == IF i - (n - Len(b)) >= 1 THEN b[i - (n - Len(b))] ELSE 0
        borrow(i) ==
            IF \A j \in (i + 1)..n : a[j] = sub(j) THEN 0
            ELSE LET k == CHOOSE k \in (i + 1)..n :
                             a[k] # sub(k) /\ \A j \in (i + 1)..(k - 1) : a[j] = sub(j)
                 IN IF a[k] < sub(k) THEN 1 ELSE 0
    IN StripZeros([i \in 1..n |->
                     (a[i] - sub(i) - borrow(i) + LimbBase) % LimbBase] \o <<>>)

\* a + 1
BigInc(a) ==
    LET n == Len(a)
        full(i) == \A j \in i..n : a[j] = LimbBase - 1
    IN IF full(1) THEN <<1>> \o Zeros(n)
       ELSE [i \in 1..n |->
               IF full(i) THEN 0 ELSE IF full(i + 1) THEN a[i] + 1 ELSE a[i]] \o <<>>

\* f64.  A finite value is written exactly, as digits * 10^exp with digits the
\* decimal digits of a natural number that does not end with 0 (every finite
\* f64 has such a form, and only one); zero has no digits.  All NaN are one
\* value.
NaN == [nan |-> TRUE, inf |-> FALSE, neg |-> FALSE, digits |-> <<>>, exp |-> 0]
Infinity(neg) == [nan |-> FALSE, inf |-> TRUE, neg |-> neg, digits |-> <<>>, exp |-> 0]
Zero(neg) == [nan |-> FALSE, inf |-> FALSE, neg |-> neg, digits |-> <<>>, exp |-> 0]
Finite(neg, digits, e) ==
    LET d == StripZeros(digits)
        z == TrailingZeros(d)
    IN IF d = <<>> THEN Zero(neg)
       ELSE [nan |-> FALSE, inf |-> FALSE, neg |-> neg,
             digits |-> SubSeq(d, 1, Len(d) - z), exp |-> e + z]

RECURSIVE NatDigits(_)
NatDigits(n) == IF n = 0 THEN <<>> ELSE Append(NatDigits(n \div 10), n % 10)

\* The f64 of a natural number below 2^31
F64(n) == Finite(FALSE, NatDigits(n), 0)

\* f64 layout: 53 bits of mantissa, binary exponents of the mantissa's unit
\* from -1074 to 971.
MantissaBits == 53
MinExp == -1074
MaxExp == 971
\* Decimal magnitudes beyond which the value is infinity or zero for sure, and
\* the digits an integer can have to be below 2^53 for sure.
MaxDecimalExp == 310
MinDecimalExp == -325
ExactDigits == 15
\* Binary exponents taken at a time when N / D is far from [2^52, 2^53)
ScaleStride == 32

\* s is [N, L, e] with value N / (D * 2^e) and L = D * 2^52: the value is
\* brought into [2^52, 2^53), or e down to MinExp, stride exponents at a time.
RECURSIVE ScaleDownBy(_, _)
ScaleDownBy(s, stride) ==
    IF BigCmp(s.N, BigDoubleN(s.L, stride)) >= 0
    THEN ScaleDownBy([N |-> s.N, L |-> BigDoubleN(s.L, stride), e |-> s.e + stride],
                     stride)
    ELSE s

RECURSIVE ScaleUpBy(_, _)
ScaleUpBy(s, stride) ==
    IF BigCmp(BigDoubleN(s.N, stride - 1), s.L) < 0 /\ s.e - stride >= MinExp
    THEN ScaleUpBy([N |-> BigDoubleN(s.N, stride), L |-> s.L, e |-> s.e - stride],
                   stride)
    ELSE s

Scale(N, L) ==
    ScaleUpBy(ScaleUpBy(ScaleDownBy(ScaleDownBy([N |-> N, L |-> L, e |-> 0],
                                                ScaleStride + 1), 1),
                        ScaleStride), 1)

\* The MantissaBits bits of N \div D, with T = D * 2^i, and the remainder.
RECURSIVE Divide(_, _, _, _)
Divide(N, T, i, q) ==
    LET bit == IF BigCmp(N, T) >= 0 THEN 1 ELSE 0
        R == IF bit = 1 THEN BigSub(N, T) ELSE N
        q2 == BigDoublePlus(q, bit)
    IN IF i = 0 \/ Len(q2) < 0 THEN [q |-> q2, rem |-> R, D |-> T]
       ELSE Divide(R, BigHalf(T), i - 1, q2)

\* Round to nearest, ties to even: the quotient goes up when the remainder is
\* above half the divisor, or is half of it and the quotient is odd.
RoundsUp(q, half) == half > 0 \/ (half = 0 /\ q # <<>> /\ q[Len(q)] % 2 = 1)

RoundQuotient(dv) ==
    IF RoundsUp(dv.q, BigCmp(BigDouble(dv.rem), dv.D)) THEN BigInc(dv.q) ELSE dv.q

\* The f64 of mantissa m and binary exponent e: m * 2^e written in decimal
FromMantissa(neg, m, e) ==
    IF e > MaxExp \/ (e = MaxExp /\ BigCmp(m, BigDoubleN(<<1>>, MantissaBits)) >= 0)
    THEN Infinity(neg)
    ELSE IF e >= 0 THEN Finite(neg, BigToDigits(BigDoubleN(m, e)), 0)
    ELSE Finite(neg, BigToDigits(BigTimes5N(m, -e)), e)

FromScaled(neg, sc) ==
    FromMantissa(neg, RoundQuotient(Divide(sc.N, sc.L, MantissaBits - 1, <<>>)), sc.e)

\* The f64 nearest to c * 10^k, ties to the even mantissa, for the digits c
\* of a natural number other than 0: infinity from 2^1024 on, subnormal
\* values and zero at the other end.  An integer of at most ExactDigits
\* digits is an f64.
RoundToF64(neg, c, k) ==
    IF Len(c) + k > MaxDecimalExp THEN Infinity(neg)
    ELSE IF Len(c) + k < MinDecimalExp THEN Zero(neg)
    ELSE IF k >= 0 /\ Len(c) + k <= ExactDigits THEN Finite(neg, c, k)
    ELSE FromScaled(neg,
             Scale(BigFromDigits(IF k >= 0 THEN c \o Zeros(k) ELSE c),
                   BigDoubleN(BigFromDigits(IF k >= 0 THEN <<1>> ELSE <<1>> \o Zeros(-k)),
                              MantissaBits - 1)))

DigitChars == <<"0", "1", "2", "3", "4", "5", "6", "7", "8", "9">>
IsDigit(c) == \E k \in 1..Len(DigitChars) : DigitChars[k] = c
DigitValue(c) == (CHOOSE k \in 1..Len(DigitChars) : DigitChars[k] = c) - 1

\* The count of digits at the head of s, and their values
DigitCount(s) ==
    IF \A k \in 1..Len(s) : IsDigit(s[k]) THEN Len(s)
    ELSE (CHOOSE k \in 1..Len(s) :
             ~IsDigit(s[k]) /\ \A j \in 1..(k - 1) : IsDigit(s[j])) - 1

DigitRun(s) == [k \in 1..DigitCount(s) |-> DigitValue(s[k])] \o <<>>

\* The value of the digits of an exponent, as parse_scientific accumulates
\* it: a digit is taken in while the value so far is below ExponentCut, and
\* the digits after that are read and left out of the value.  (Leading zeros
\* leave the value at 0.)
ExponentCut == 65536

RECURSIVE ExponentFrom(_, _)
ExponentFrom(a, acc) ==
    IF a = <<>> \/ acc >= ExponentCut THEN acc
    ELSE ExponentFrom(Tail(a), 10 * acc + Head(a))

ExponentValue(a) == ExponentFrom(StripZeros(a), 0)

\* ASCII lower case of the letters of "infinity" and "nan"
UpperChars == <<"I", "N", "F", "T", "Y", "A", "E">>
LowerChars == <<"i", "n", "f", "t", "y", "a", "e">>
ToLower(c) ==
    IF \E k \in 1..Len(UpperChars) : UpperChars[k] = c
    THEN LowerChars[CHOOSE k \in 1..Len(UpperChars) : UpperChars[k] = c]
    ELSE c

LowerCase(s) == [k \in 1..Len(s) |-> ToLower(s[k])]

\* <f64 as FromStr>::from_str, as an Option: the grammar is
\*   [+-]? ( inf | infinity | nan | Number ), letters in any case,
\*   Number = ( Digit+ | Digit+ . Digit* | Digit* . Digit+ ) ( e [+-]? Digit+ )?
\* and the value the f64 nearest to the decimal number.  The operators below
\* read the text left to right, each taking what the ones before it read.

\* The value of the significant digits c (no leading zero) times 10^k
ParseSignificand(neg, c, k) ==
    IF c = <<>> THEN Zero(neg)
    ELSE RoundToF64(neg, SubSeq(c, 1, Len(c) - TrailingZeros(c)), k + TrailingZeros(c))

ParseValue(neg, int, frac, e) ==
    ParseSignificand(neg, StripZeros(int \o frac), e - Len(frac))

\* After e and its sign: Digit+ and nothing more
ParseExpDigits(neg, int, frac, eneg, r4, ed) ==
    IF ed = <<>> \/ Len(ed) # Len(r4) THEN None
    ELSE Some(ParseValue(neg, int, frac,
                         IF eneg THEN -ExponentValue(ed) ELSE ExponentValue(ed)))

ParseExpRest(neg, int, frac, eneg, r4) ==
    ParseExpDigits(neg, int, frac, eneg, r4, DigitRun(r4))

\* After e: [+-]?
ParseExpSign(neg, int, frac, r3, signed) ==
    ParseExpRest(neg, int, frac, signed /\ Head(r3) = "-",
                 IF signed THEN Tail(r3) ELSE r3)

\* After the mantissa: nothing, or e and an exponent
ParseExp(neg, int, frac, r2) ==
    IF r2 = EmptyStr THEN Some(ParseValue(neg, int, frac, 0))
    ELSE IF ToLower(Head(r2)) # "e" THEN None
    ELSE ParseExpSign(neg, int, frac, Tail(r2),
                      Tail(r2) # EmptyStr /\ Head(Tail(r2)) \in {"+", "-"})

\* The mantissa has a digit, before or after the point
ParseMantissa(neg, int, frac, r2) ==
    IF Len(int) + Len(frac) = 0 THEN None ELSE ParseExp(neg, int, frac, r2)

ParseFractionDigits(neg, int, r, frac) ==
    ParseMantissa(neg, int, frac, SubSeq(r, Len(frac) + 1, Len(r)))

\* After the integer digits: a point and Digit*, or no point
ParseFraction(neg, int, r1, dot) ==
    ParseFractionDigits(neg, int, IF dot THEN Tail(r1) ELSE r1,
                        IF dot THEN DigitRun(Tail(r1)) ELSE <<>>)

ParsePoint(neg, int, r1) ==
    ParseFraction(neg, int, r1, r1 # EmptyStr /\ Head(r1) = ".")

ParseNumber(neg, body, int) ==
    ParsePoint(neg, int, SubSeq(body, Len(int) + 1, Len(body)))

\* After the sign: a word, or a number
ParseWord(neg, body, word) ==
    IF word = <<"i", "n", "f">> \/ word = <<"i", "n", "f", "i", "n", "i", "t", "y">>
    THEN Some(Infinity(neg))
    ELSE IF word = <<"n", "a", "n">> THEN Some(NaN)
    ELSE ParseNumber(neg, body, DigitRun(body))

ParseBody(neg, body) == ParseWord(neg, body, LowerCase(body))

ParseSign(t, signed) ==
    ParseBody(signed /\ Head(t) = "-", IF signed THEN Tail(t) ELSE t)

parse_f64(t) == ParseSign(t, t # EmptyStr /\ Head(t) \in {"+", "-"})

\* v.trim().parse::<f64>().unwrap_or(NAN)
parse_f64_or_nan(v) ==
    LET r == parse_f64(trim(v)) IN
    IF IsSome(r) THEN r[1] ELSE NaN

\* ------------------------------------------------------- settings::Column
ColumnNone == [kind |-> "None", index |-> 0, title |-> EmptyStr]
ColumnIndex(i) == [kind |-> "Index", index |-> i, title |-> EmptyStr]
ColumnTitle(t) == [kind |-> "Title", index |-> 0, title |-> t]

\* Column::matches(title, position)
matches(c, t, i) ==
    CASE c.kind = "Index" -> c.index = i
      [] c.kind = "Title" -> c.title = t
      [] OTHER -> FALSE

\* ------------------------------------------------------------ schema.rs
ColumnSchema(title, index) == [title |-> title, index |-> index]

SchemaDefault == [x |-> None, epoch |-> None, titles |-> <<>>]

\* One step of the closure of Schema::new: X is tried first, then Epoch, and
\* any other field becomes a series title.
SchemaStep(x, epoch, res, t, i) ==
    IF matches(x, t, i) THEN [res EXCEPT !.x = Some(ColumnSchema(t, i))]
    ELSE IF matches(epoch, t, i) THEN [res EXCEPT !.epoch = Some(ColumnSchema(t, i))]
    ELSE [res EXCEPT !.titles = Append(@, t)]

RECURSIVE SchemaFold(_, _, _, _, _)
SchemaFold(x, epoch, titles, i, res) ==
    IF i >= Len(titles) THEN res
    ELSE SchemaFold(x, epoch, titles, i + 1, SchemaStep(x, epoch, res, titles[i + 1], i))

\* Schema::new(x, epoch, titles)
SchemaNew(x, epoch, titles) == SchemaFold(x, epoch, titles, 0, SchemaDefault)

\* Series::with_title
SeriesWithTitle(t) == [title |-> t, values |-> <<>>]

\* Mutant of empty_set: the epoch of the set is taken from the Epoch role.
empty_set_EpochFromRole(schema) ==
    [epoch |-> IF IsSome(schema.epoch) THEN Some(schema.epoch[1].title) ELSE None,
     x |-> IF IsSome(schema.x) THEN Some([title |-> schema.x[1].title, values |-> <<>>])
           ELSE None,
     y |-> [k \in 1..Len(schema.titles) |-> SeriesWithTitle(schema.titles[k])]]

\* Schema::empty_set
empty_set(schema) ==
    [epoch |-> None,
     x |-> IF IsSome(schema.x) THEN Some([title |-> schema.x[1].title, values |-> <<>>])
           ELSE None,
     y |-> [k \in 1..Len(schema.titles) |-> SeriesWithTitle(schema.titles[k])]]

SliceDefault == [x |-> None, epoch |-> None, y |-> <<>>]

\* Mutant of SliceStep: a cell that does not parse is left out of y.
SliceStep_DropsUnparsed(schema, res, v, i) ==
    IF IsSome(schema.x) /\ schema.x[1].index = i THEN [res EXCEPT !.x = Some(v)]
    ELSE IF IsSome(schema.epoch) /\ schema.epoch[1].index = i
         THEN [res EXCEPT !.epoch = Some(v)]
    ELSE IF parse_f64_or_nan(v) = NaN THEN res
    ELSE [res EXCEPT !.y = Append(@, parse_f64_or_nan(v))]

\* One step of the closure of Schema::slice.
SliceStep(schema, res, v, i) ==
    IF IsSome(schema.x) /\ schema.x[1].index = i THEN [res EXCEPT !.x = Some(v)]
    ELSE IF IsSome(schema.epoch) /\ schema.epoch[1].index = i
         THEN [res EXCEPT !.epoch = Some(v)]
    ELSE [res EXCEPT !.y = Append(@, parse_f64_or_nan(v))]

RECURSIVE SliceFold(_, _, _, _)
SliceFold(schema, input, i, res) ==
    IF i >= Len(input) THEN res
    ELSE SliceFold(schema, input, i + 1, SliceStep(schema, res, input[i + 1], i))

\* Schema::slice(input)
slice(schema, input) == SliceFold(schema, input, 0, SliceDefault)

\* SeriesSet::append_slice: the x cell joins the x values, the epoch of the
\* slice becomes the epoch of the set, and the k-th value joins the k-th series.
append_slice(data, s) ==
    [epoch |-> IF IsSome(s.epoch) THEN s.epoch ELSE data.epoch,
     x |-> IF IsSome(data.x) /\ IsSome(s.x)
           THEN Some([data.x[1] EXCEPT !.values = Append(@, s.x[1])])
           ELSE data.x,
     y |-> [k \in 1..Len(data.y) |->
              IF k <= Len(s.y) THEN [data.y[k] EXCEPT !.values = Append(@, s.y[k])]
              ELSE data.y[k]]]

\* ------------------------------------------------------------ fetcher.rs
\* Message of the result channel; pass is the number of the pass that sent it
\* (history information, not a field of the source's Message).
Msg(p, kind, set, sl) == [pass |-> p, kind |-> kind, set |-> set, slice |-> sl]
MsgData(p, set) == Msg(p, "Data", Some(set), None)
MsgDataSlice(p, sl) == Msg(p, "DataSlice", None, Some(sl))
MsgAppendDataSet(p, set) == Msg(p, "AppendDataSet", Some(set), None)
MsgFetchError(p) == Msg(p, "FetchError", None, None)

\* What lines.next() can give: a line, a failed read, or end of input.
ItemOk(l) == [tag |-> "Ok", line |-> l]
ItemErr == [tag |-> "Err", line |-> EmptyStr]
ItemNone == [tag |-> "None", line |-> EmptyStr]

LineAB == Str3("a", ",", "b")
Line12 == Str3("1", ",", "2")
LineItems == {ItemOk(LineAB), ItemOk(Line12), ItemOk(EmptyStr), ItemErr}

\* settings.cmd: the words of the command line, when one is configured
Cmds == {None, Some(<<Str1("c"), Str1("a")>>)}
RefreshRates == {0, 1}
XColumns == {ColumnNone, ColumnIndex(0)}
EpochColumns == {ColumnNone, ColumnTitle(Str1("b"))}

SettingsSet ==
    [cmd : Cmds, x : XColumns, epoch : EpochColumns, refresh_rate : RefreshRates]

\* Vec<String>::join(" ")
RECURSIVE join(_)
join(words) ==
    IF Len(words) = 0 THEN EmptyStr
    ELSE IF Len(words) = 1 THEN words[1]
    ELSE words[1] \o Str1(" ") \o join(Tail(words))

\* Mutant of FetchModeOf: the Epoch selector is looked at before the refresh rate.
FetchModeOf_EpochFirst(refresh_positive, epoch_set) ==
    IF epoch_set THEN "Batch"
    ELSE IF refresh_positive THEN "Autorefresh"
    ELSE "Incremental"

\* The match of Fetcher::new that selects the mode.
FetchModeOf(refresh_positive, epoch_set) ==
    IF refresh_positive THEN "Autorefresh"
    ELSE IF epoch_set THEN "Batch"
    ELSE "Incremental"

\* Fetcher::new(settings, sender_to_main_loop)
FetcherNew(s) ==
    [cmd |-> IF IsSome(s.cmd) THEN Some(join(s.cmd[1])) ELSE None,
     x |-> s.x,
     epoch |-> s.epoch,
     mode |-> FetchModeOf(s.refresh_rate > 0, s.epoch # ColumnNone)]

\* Mutant of read_from: Batch is dispatched to read_lines.
read_from_BatchLines(mode) ==
    CASE mode = "Incremental" -> "read_lines_outer"
      [] mode = "Batch" -> "read_lines_outer"
      [] mode = "Autorefresh" -> "read_all_first"

\* Mutant of read_from: Autorefresh is dispatched to read_batches.
read_from_AutorefreshBatches(mode) ==
    CASE mode = "Incremental" -> "read_lines_outer"
      [] mode = "Batch" -> "read_batches_outer"
      [] mode = "Autorefresh" -> "read_batches_outer"

\* Fetcher::read_from: the reading function the mode dispatches to.
read_from(mode) ==
    CASE mode = "Incremental" -> "read_lines_outer"
      [] mode = "Batch" -> "read_batches_outer"
      [] mode = "Autorefresh" -> "read_all_first"

\* Mutant of send: the message overtakes the ones already queued.
send_Overtaking(ch, m) == <<m>> \o ch

\* mpsc::Sender::send on a channel whose receiver is alive
send(ch, m) == Append(ch, m)

\* Mutant of worker_match: the error is reported twice.
worker_match_ReportsTwice(result, ch, alive, p) ==
    IF result = "Ok" THEN [pc |-> "recv", ch |-> ch]
    ELSE IF alive
         THEN [pc |-> "recv", ch |-> Append(Append(ch, MsgFetchError(p)), MsgFetchError(p))]
    ELSE [pc |-> "panicked", ch |-> ch]

\* Mutant of worker_match: the worker thread ends after reporting an error.
worker_match_ErrEndsLoop(result, ch, alive, p) ==
    IF result = "Ok" THEN [pc |-> "recv", ch |-> ch]
    ELSE IF alive THEN [pc |-> "panicked", ch |-> Append(ch, MsgFetchError(p))]
    ELSE [pc |-> "panicked", ch |-> ch]

\* The worker loop's match on the result of fetcher.read(): Ok needs nothing,
\* Err is sent as FetchError, and the unwrap panics when that send fails.
worker_match(result, ch, alive, p) ==
    IF result = "Ok" THEN [pc |-> "recv", ch |-> ch]
    ELSE IF alive THEN [pc |-> "recv", ch |-> send(ch, MsgFetchError(p))]
    ELSE [pc |-> "panicked", ch |-> ch]

VARIABLES
    settings,       \* the Settings the FetcherLoop was built from
    fetcher,        \* the Fetcher moved into the worker thread
    toFetcher,      \* trigger channel: number of () signals queued
    toMainLoop,     \* result channel: the messages sent, in order
    receiverAlive,  \* the main loop still holds the receiver of the result channel
    pc,             \* position of the worker thread
    caller,         \* the thread that calls fetch(): "running" or "panicked"
    schema,         \* local `schema` of the running read function (Option)
    data,           \* local `data` of the running read function (Option)
    source,         \* the reader of the pass: what lines.next() has given so far
    pass,           \* passes started (calls of fetcher.read())
    triggers,       \* calls of fetch()
    nreads,         \* lines the sources have delivered over the run
    test            \* the schema.rs test harness (used by SchemaSpec)

vars == <<settings, fetcher, toFetcher, toMainLoop, receiverAlive, pc, caller,
          schema, data, source, pass, triggers, nreads, test>>

config == <<settings, fetcher>>
counters == <<triggers, nreads>>

NewSource == [read |-> <<>>]
TestIdle == [step |-> "idle", x |-> ColumnNone, epoch |-> ColumnNone, titles |-> <<>>,
             input |-> <<>>, schema |-> None, set |-> None, slice |-> None]

\* FetcherLoop::new: the channel is created, the Fetcher built, the worker
\* thread spawned and blocked in recv().
Init ==
    /\ settings \in SettingsSet
    /\ fetcher = FetcherNew(settings)
    /\ toFetcher = 0
    /\ toMainLoop = <<>>
    /\ receiverAlive = TRUE
    /\ pc = "recv"
    /\ caller = "running"
    /\ schema = None
    /\ data = None
    /\ source = NewSource
    /\ pass = 0
    /\ triggers = 0
    /\ nreads = 0
    /\ test = TestIdle

\* Mutant of channel_accepts: a rendezvous channel, whose send waits for the
\* queued signal to be received.
channel_accepts_Rendezvous(queued) == queued = 0

\* mpsc::channel() is asynchronous and unbounded: a send on it completes
\* whatever is queued.
channel_accepts(queued) == TRUE

\* FetcherLoop::fetch: send(()).unwrap() on the trigger channel; the send
\* fails, and the unwrap panics, once the worker thread is gone.
fetch ==
    /\ caller = "running"
    /\ triggers < MaxTriggers
    /\ pc # "panicked" => channel_accepts(toFetcher)
    /\ triggers' = triggers + 1
    /\ IF pc = "panicked"
       THEN caller' = "panicked" /\ UNCHANGED toFetcher
       ELSE toFetcher' = toFetcher + 1 /\ UNCHANGED caller
    /\ UNCHANGED <<config, toMainLoop, receiverAlive, pc, schema, data, source,
                   pass, nreads, test>>

\* The main loop drops the receiver of the result channel.
drop_receiver ==
    /\ receiverAlive
    /\ receiverAlive' = FALSE
    /\ UNCHANGED <<config, toFetcher, toMainLoop, pc, caller, schema, data, source,
                   pass, counters, test>>

\* The read function returns `result` to the worker loop; its locals are dropped.
Return(result, p) ==
    LET r == worker_match(result, toMainLoop, receiverAlive, p) IN
    /\ pc' = r.pc
    /\ toMainLoop' = r.ch
    /\ schema' = None
    /\ data' = None

\* A send(..).unwrap() inside a read function on a channel without receiver.
Panic ==
    /\ pc' = "panicked"
    /\ schema' = None
    /\ data' = None
    /\ UNCHANGED toMainLoop

\* The worker loop: recv() returns a trigger and Fetcher::read starts:
\* the source is acquired (spawned_stdout can fail, stdin cannot) and
\* read_from dispatches on the mode.
worker_recv ==
    /\ pc = "recv"
    /\ toFetcher > 0
    /\ toFetcher' = toFetcher - 1
    /\ pass' = pass + 1
    /\ source' = NewSource
    /\ \E spawned \in (IF IsSome(fetcher.cmd) THEN BOOLEAN ELSE {TRUE}) :
         IF spawned
         THEN /\ pc' = read_from(fetcher.mode)
              /\ UNCHANGED <<toMainLoop, schema, data>>
         ELSE Return("Err", pass')
    /\ UNCHANGED <<config, receiverAlive, caller, counters, test>>

\* lines.next() on the reader of the pass: a line, a failed read, or None
\* when the read finds no byte.  None does not close the reader: a call of
\* next() after it reads again (a terminal gives lines after an end of file).
NextItems == {ItemNone} \cup (IF nreads < MaxReads THEN LineItems ELSE {})

Consume(it) ==
    /\ source' = [source EXCEPT !.read = Append(@, it)]
    /\ nreads' = IF it.tag = "None" THEN nreads ELSE nreads + 1

\* The arm `Some(Ok(l)) if l != ""` of the inner loops.
IsRegularData(it) == it.tag = "Ok" /\ it.line # EmptyStr

\* read_lines, head of the outer loop: the next line is a header.
read_lines_outer ==
    /\ pc = "read_lines_outer"
    /\ \E it \in NextItems :
         /\ Consume(it)
         /\ CASE it.tag = "None" -> Return("Ok", pass)
              [] it.tag = "Err" -> Return("Err", pass)
              [] OTHER ->
                   LET sch == SchemaNew(fetcher.x, fetcher.epoch, split(it.line)) IN
                   IF receiverAlive
                   THEN /\ toMainLoop' = send(toMainLoop, MsgData(pass, empty_set(sch)))
                        /\ schema' = Some(sch)
                        /\ pc' = "read_lines_inner"
                        /\ UNCHANGED data
                   ELSE Panic
    /\ UNCHANGED <<config, toFetcher, receiverAlive, caller, pass, triggers, test>>

\* read_lines, inner loop: a regular line is sent as a slice, anything else
\* ends the batch.
read_lines_inner ==
    /\ pc = "read_lines_inner"
    /\ \E it \in NextItems :
         /\ Consume(it)
         /\ IF IsRegularData(it)
            THEN IF receiverAlive
                 THEN /\ toMainLoop' =
                           send(toMainLoop, MsgDataSlice(pass, slice(schema[1], split(it.line))))
                      /\ UNCHANGED <<pc, schema, data>>
                 ELSE Panic
            ELSE /\ pc' = "read_lines_outer"
                 /\ schema' = None
                 /\ UNCHANGED <<toMainLoop, data>>
    /\ UNCHANGED <<config, toFetcher, receiverAlive, caller, pass, triggers, test>>

\* read_batches, head of the outer loop: the next line is a header.
read_batches_outer ==
    /\ pc = "read_batches_outer"
    /\ \E it \in NextItems :
         /\ Consume(it)
         /\ CASE it.tag = "None" -> Return("Ok", pass)
              [] it.tag = "Err" -> Return("Err", pass)
              [] OTHER ->
                   LET sch == SchemaNew(fetcher.x, fetcher.epoch, split(it.line)) IN
                   /\ schema' = Some(sch)
                   /\ data' = Some(empty_set(sch))
                   /\ pc' = "read_batches_inner"
                   /\ UNCHANGED toMainLoop
    /\ UNCHANGED <<config, toFetcher, receiverAlive, caller, pass, triggers, test>>

\* Mutant of read_batches_inner: the end of the input ends the batch without
\* sending the data set.
read_batches_inner_NoFlushAtEof ==
    /\ pc = "read_batches_inner"
    /\ \E it \in NextItems :
         /\ Consume(it)
         /\ IF IsRegularData(it)
            THEN /\ data' = Some(append_slice(data[1], slice(schema[1], split(it.line))))
                 /\ UNCHANGED <<pc, schema, toMainLoop>>
            ELSE IF receiverAlive
                 THEN /\ toMainLoop' = IF it.tag = "None" THEN toMainLoop
                                       ELSE send(toMainLoop, MsgAppendDataSet(pass, data[1]))
                      /\ pc' = "read_batches_outer"
                      /\ schema' = None
                      /\ data' = None
                 ELSE Panic
    /\ UNCHANGED <<config, toFetcher, receiverAlive, caller, pass, triggers, test>>

\* read_batches, inner loop: a regular line is appended, anything else sends
\* the data set and ends the batch.
read_batches_inner ==
    /\ pc = "read_batches_inner"
    /\ \E it \in NextItems :
         /\ Consume(it)
         /\ IF IsRegularData(it)
            THEN /\ data' = Some(append_slice(data[1], slice(schema[1], split(it.line))))
                 /\ UNCHANGED <<pc, schema, toMainLoop>>
            ELSE IF receiverAlive
                 THEN /\ toMainLoop' = send(toMainLoop, MsgAppendDataSet(pass, data[1]))
                      /\ pc' = "read_batches_outer"
                      /\ schema' = None
                      /\ data' = None
                 ELSE Panic
    /\ UNCHANGED <<config, toFetcher, receiverAlive, caller, pass, triggers, test>>

\* read_all: `if let Some(l) = lines.next()`, the header of the whole input.
read_all_first ==
    /\ pc = "read_all_first"
    /\ \E it \in NextItems :
         /\ Consume(it)
         /\ CASE it.tag = "None" -> Return("Ok", pass)
              [] it.tag = "Err" -> Return("Err", pass)
              [] OTHER ->
                   LET sch == SchemaNew(fetcher.x, fetcher.epoch, split(it.line)) IN
                   /\ schema' = Some(sch)
                   /\ data' = Some(empty_set(sch))
                   /\ pc' = "read_all_rest"
                   /\ UNCHANGED toMainLoop
    /\ UNCHANGED <<config, toFetcher, receiverAlive, caller, pass, triggers, test>>

\* read_all: `for l in lines`, every line is appended; at the end of the
\* input the data set is sent.
read_all_rest ==
    /\ pc = "read_all_rest"
    /\ \E it \in NextItems :
         /\ Consume(it)
         /\ CASE it.tag = "None" ->
                   IF receiverAlive
                   THEN /\ toMainLoop' = send(toMainLoop, MsgData(pass, data[1]))
                        /\ pc' = "recv"
                        /\ schema' = None
                        /\ data' = None
                   ELSE Panic
              [] it.tag = "Err" -> Return("Err", pass)
              [] OTHER ->
                   /\ data' = Some(append_slice(data[1], slice(schema[1], split(it.line))))
                   /\ UNCHANGED <<pc, schema, toMainLoop>>
    /\ UNCHANGED <<config, toFetcher, receiverAlive, caller, pass, triggers, test>>

Next ==
    \/ fetch
    \/ drop_receiver
    \/ worker_recv
    \/ read_lines_outer
    \/ read_lines_inner
    \/ read_batches_outer
    \/ read_batches_inner
    \/ read_all_first
    \/ read_all_rest

Spec == Init /\ [][Next]_vars

\* The steps of the worker thread.
Worker ==
    \/ worker_recv
    \/ read_lines_outer
    \/ read_lines_inner
    \/ read_batches_outer
    \/ read_batches_inner
    \/ read_all_first
    \/ read_all_rest

\* The loop with a main loop that keeps its receiver: the worker thread is
\* scheduled fairly, and the read budget makes every source reach its end.
LiveNext ==
    \/ fetch
    \/ Worker

LiveSpec == Init /\ [][LiveNext]_vars /\ WF_vars(Worker)

\* ------------------------------------------------- schema.rs, mod tests
\* test_schema and test_x_epoch build a Schema from a selector pair and a list
\* of titles, take its empty set, and slice a row.  SchemaSpec runs that
\* harness over every selector pair, header and row within the bounds.
TestTitles == {Str1("a"), Str1("b")}
TestCells == {Str1("1"), Str2("\t", "2"), Str2("-", "1"), Str1("a")}
TestColumns ==
    {ColumnNone} \cup {ColumnIndex(i) : i \in 0..(MaxFields - 1)}
                 \cup {ColumnTitle(t) : t \in TestTitles}

SeqsUpTo(S, n) == UNION {[1..k -> S] : k \in 0..n}

SchemaInit ==
    /\ settings = [cmd |-> None, x |-> ColumnNone, epoch |-> ColumnNone, refresh_rate |-> 0]
    /\ fetcher = FetcherNew(settings)
    /\ toFetcher = 0
    /\ toMainLoop = <<>>
    /\ receiverAlive = TRUE
    /\ pc = "recv"
    /\ caller = "running"
    /\ schema = None
    /\ data = None
    /\ source = NewSource
    /\ pass = 0
    /\ triggers = 0
    /\ nreads = 0
    /\ \E x \in TestColumns, epoch \in TestColumns, titles \in SeqsUpTo(TestTitles, MaxFields) :
         test = [TestIdle EXCEPT !.step = "new", !.x = x, !.epoch = epoch, !.titles = titles]

loop_vars == <<settings, fetcher, toFetcher, toMainLoop, receiverAlive, pc, caller,
               schema, data, source, pass, triggers, nreads>>

\* let schema = Schema::new(x, epoch, titles)
test_new ==
    /\ test.step = "new"
    /\ test' = [test EXCEPT !.step = "empty_set",
                            !.schema = Some(SchemaNew(test.x, test.epoch, test.titles))]
    /\ UNCHANGED loop_vars

\* let s = schema.empty_set()
test_empty_set ==
    /\ test.step = "empty_set"
    /\ test' = [test EXCEPT !.step = "slice", !.set = Some(empty_set(test.schema[1]))]
    /\ UNCHANGED loop_vars

\* let slice = schema.slice(input)
test_slice ==
    /\ test.step = "slice"
    /\ \E input \in SeqsUpTo(TestCells, MaxFields) :
         test' = [test EXCEPT !.step = "done", !.input = input,
                              !.slice = Some(slice(test.schema[1], input))]
    /\ UNCHANGED loop_vars

SchemaNext == test_new \/ test_empty_set \/ test_slice

SchemaSpec == SchemaInit /\ [][SchemaNext]_vars

\* ================================================================ claims
\* The messages pass p has put on the result channel, in order.
PassMsgs(p) == SelectSeq(toMainLoop, LAMBDA m : m.pass = p)
KindCount(msgs, kind) == Cardinality({k \in 1..Len(msgs) : msgs[k].kind = kind})
IsDataset(m) == m.kind \in {"Data", "AppendDataSet"}
DatasetCount(msgs) == Cardinality({k \in 1..Len(msgs) : IsDataset(msgs[k])})
\* The messages of a pass other than its FetchError.
DatasetMsgs(p) == SelectSeq(PassMsgs(p), LAMBDA m : m.kind # "FetchError")

\* The latest pass has returned to the worker loop, which waits in recv().
PassReturned == pc = "recv" /\ pass > 0
\* The latest lines.next() of the pass gave None.
Eof == Len(source.read) > 0 /\ source.read[Len(source.read)].tag = "None"
\* A read of the current pass failed.
ReadFailed == \E k \in 1..Len(source.read) : source.read[k].tag = "Err"
\* The pass ended with a FetchError on the channel.
EndedWithFetchError(p) ==
    /\ PassMsgs(p) # <<>>
    /\ PassMsgs(p)[Len(PassMsgs(p))].kind = "FetchError"

\* C1: passes run one at a time and in trigger order: the messages on the
\* result channel are grouped by pass, in increasing pass order, none comes
\* from a pass that has not started, every trigger is either still queued or
\* has started exactly one pass, and a pass that has returned ran to the end
\* of its input or to the error it reported.
C1_PassesInTriggerOrder ==
    /\ \A i, j \in 1..Len(toMainLoop) :
         i < j => toMainLoop[i].pass <= toMainLoop[j].pass
    /\ \A i \in 1..Len(toMainLoop) : toMainLoop[i].pass \in 1..pass
    /\ caller = "running" => pass + toFetcher = triggers
    /\ PassReturned => Eof \/ EndedWithFetchError(pass)

\* C1 witness: a trigger waits in the queue while the second pass runs, and
\* both passes have put messages on the channel.
C1_Witness ==
    /\ pass = 2
    /\ toFetcher = 1
    /\ pc \notin {"recv", "panicked"}
    /\ Len(PassMsgs(1)) >= 2
    /\ Len(PassMsgs(2)) >= 1

\* The source of the latest pass could not be acquired (read() returned
\* before read_from was called).
AcquireFailed == pass > 0 /\ pc \in {"recv", "panicked"} /\ source = NewSource

\* C2: in every mode a failed read (of a header or of a data line), or a
\* source that cannot be acquired, aborts the pass with exactly one FetchError.
C2_ReadFailureAbortsPass ==
    ((ReadFailed \/ AcquireFailed) /\ pc # "panicked") =>
        /\ pc = "recv"
        /\ KindCount(PassMsgs(pass), "FetchError") = 1

\* C3: a failed pass does not stop the loop: once the FetchError of the
\* latest pass is on the channel the worker waits in recv() holding no schema
\* and no data set, a queued trigger can start the next pass, and a pass
\* starts on a new source.
C3_FailedPassDoesNotStopLoop ==
    /\ (pass > 0 /\ EndedWithFetchError(pass)) =>
          /\ pc = "recv"
          /\ schema = None /\ data = None
          /\ toFetcher > 0 => ENABLED worker_recv
    /\ pc \in {"read_lines_outer", "read_batches_outer", "read_all_first"} =>
          /\ schema = None /\ data = None
          /\ pc = "read_all_first" => source = NewSource

\* C3 witness: the pass before the latest one ended with a FetchError, and
\* the latest pass has delivered a data set of its own.
C3_Witness ==
    /\ pass >= 2
    /\ EndedWithFetchError(pass - 1)
    /\ DatasetCount(PassMsgs(pass)) >= 1
    /\ PassReturned

\* --------------------------------------------- the grouping of the claims
\* What the reader gave before the first failed read: lines and ends of
\* input; and the text of the lines among them.
FirstErr ==
    IF ReadFailed
    THEN CHOOSE k \in 1..Len(source.read) :
           /\ source.read[k].tag = "Err"
           /\ \A j \in 1..(k - 1) : source.read[j].tag # "Err"
    ELSE Len(source.read) + 1
ItemsRead == SubSeq(source.read, 1, FirstErr - 1)
LinesRead ==
    LET oks == SelectSeq(ItemsRead, LAMBDA it : it.tag = "Ok") IN
    [k \in 1..Len(oks) |-> oks[k].line]

\* An empty line or an end of input: what ends a batch.
IsBoundary(it) == it.tag = "None" \/ it.line = EmptyStr

\* A batch as the specification defines it: a header, the lines after it up
\* to the first empty line or end of input; closed tells that the boundary
\* has been read.  An end of input where a header is due ends the pass.
RECURSIVE Batches(_)
Batches(its) ==
    IF its = <<>> \/ its[1].tag = "None" THEN <<>>
    ELSE LET rest == Tail(its)
             n == CHOOSE n \in 0..Len(rest) :
                    /\ \A k \in 1..n : ~IsBoundary(rest[k])
                    /\ n = Len(rest) \/ IsBoundary(rest[n + 1])
             closed == n < Len(rest)
         IN <<[header |-> its[1].line,
               rows |-> [k \in 1..n |-> rest[k].line],
               closed |-> closed]>>
            \o Batches(IF closed THEN SubSeq(rest, n + 2, Len(rest)) ELSE <<>>)

SchemaOf(header) == SchemaNew(fetcher.x, fetcher.epoch, split(header))

\* The data set that holds the given rows, appended in order.
RECURSIVE WithRows(_, _, _)
WithRows(set, sch, rows) ==
    IF rows = <<>> THEN set
    ELSE WithRows(append_slice(set, slice(sch, split(rows[1]))), sch, Tail(rows))

RECURSIVE Flatten(_)
Flatten(seqs) == IF seqs = <<>> THEN <<>> ELSE seqs[1] \o Flatten(Tail(seqs))

\* Streaming: per batch a Data with the empty set of the header, then one
\* DataSlice per data line.
StreamingEvents(p, its) ==
    LET bs == Batches(its) IN
    Flatten([b \in 1..Len(bs) |->
        <<MsgData(p, empty_set(SchemaOf(bs[b].header)))>>
        \o [k \in 1..Len(bs[b].rows) |->
              MsgDataSlice(p, slice(SchemaOf(bs[b].header), split(bs[b].rows[k])))]])

\* Batched: one AppendDataSet per batch whose boundary has been reached.
BatchedEvents(p, its) ==
    LET bs == SelectSeq(Batches(its), LAMBDA b : b.closed) IN
    [b \in 1..Len(bs) |->
        MsgAppendDataSet(p, WithRows(empty_set(SchemaOf(bs[b].header)),
                                     SchemaOf(bs[b].header), bs[b].rows))]

\* C4: in Streaming mode the messages of a pass are, per batch and in input
\* order, a Data with the empty set of the batch's header and one DataSlice
\* per non-empty data line, the batch ending at the first empty line or at
\* the end of the input (a failed read ends the pass, see C2).
C4_StreamingEventsPerBatch ==
    (fetcher.mode = "Incremental" /\ PassReturned) =>
        DatasetMsgs(pass) = StreamingEvents(pass, ItemsRead)

\* C4 on the passes whose reads all succeed (supporting fact, not the claim).
C4_StreamingWithoutReadFailure ==
    (fetcher.mode = "Incremental" /\ PassReturned /\ ~ReadFailed /\ ~AcquireFailed) =>
        PassMsgs(pass) = StreamingEvents(pass, ItemsRead)

\* C5: in Batched mode a pass sends one AppendDataSet per batch, only when
\* the boundary of the batch (empty line or end of input) is reached, holding
\* every row of the batch in order, and nothing else; a batch cut short by a
\* failed read is not sent.
C5_BatchedOneDatasetPerBatch ==
    (fetcher.mode = "Batch" /\ pass > 0 /\ pc # "panicked") =>
        DatasetMsgs(pass) = BatchedEvents(pass, ItemsRead)

\* C5 on the passes whose reads all succeed (supporting fact, not the claim).
C5_BatchedWithoutReadFailure ==
    (fetcher.mode = "Batch" /\ pass > 0 /\ pc # "panicked" /\ ~ReadFailed /\ ~AcquireFailed) =>
        PassMsgs(pass) = BatchedEvents(pass, ItemsRead)

\* The pass read its input to the end without a failed read and returned.
ReadToEnd == PassReturned /\ Eof /\ ~ReadFailed

\* C6 as stated: in Snapshot mode every pass that reads its input to the end
\* without a failed read sends exactly one data set, for inputs of zero or
\* more lines.
C6_SnapshotOneDatasetAnyInput ==
    (fetcher.mode = "Autorefresh" /\ ReadToEnd) => DatasetCount(PassMsgs(pass)) = 1

\* C6 as amended: in Snapshot mode a pass sends nothing before it has read
\* the end of its input; a pass that read one or more lines to the end
\* without a failed read has sent exactly one message, a Data carrying a data
\* set; a pass whose input has no line has sent nothing.
C6_SnapshotOneDatasetNonEmptyInput ==
    (fetcher.mode = "Autorefresh" /\ pass > 0 /\ pc # "panicked") =>
        IF Eof /\ ~ReadFailed /\ Len(LinesRead) >= 1
        THEN /\ pc = "recv"
             /\ Len(PassMsgs(pass)) = 1
             /\ PassMsgs(pass)[1].kind = "Data"
             /\ IsSome(PassMsgs(pass)[1].set)
        ELSE DatasetMsgs(pass) = <<>>

\* C6 witness: a Snapshot pass over a header, an empty line and a data line
\* has returned with its one data set.
C6_Witness ==
    /\ fetcher.mode = "Autorefresh"
    /\ ReadToEnd
    /\ Len(LinesRead) >= 3
    /\ LinesRead[2] = EmptyStr
    /\ Len(PassMsgs(pass)) = 1

NonBlank(ls) == SelectSeq(ls, LAMBDA l : l # EmptyStr)

\* C7: in Snapshot mode an empty line neither splits the input nor adds a
\* row: the one data set of the pass holds one row per non-empty line after
\* the header.
C7_SnapshotIgnoresBlankLines ==
    (fetcher.mode = "Autorefresh" /\ ReadToEnd /\ Len(LinesRead) >= 1) =>
        /\ DatasetCount(PassMsgs(pass)) = 1
        /\ PassMsgs(pass)[1].set =
             Some(WithRows(empty_set(SchemaOf(LinesRead[1])), SchemaOf(LinesRead[1]),
                           NonBlank(Tail(LinesRead))))

\* C7 on what the code does (supporting fact, not the claim): every line after
\* the header, empty or not, is sliced and appended.
C7_SnapshotAppendsEveryLine ==
    (fetcher.mode = "Autorefresh" /\ ReadToEnd /\ Len(LinesRead) >= 1) =>
        /\ DatasetCount(PassMsgs(pass)) = 1
        /\ PassMsgs(pass)[1].set =
             Some(WithRows(empty_set(SchemaOf(LinesRead[1])), SchemaOf(LinesRead[1]),
                           Tail(LinesRead)))

\* C8: the mode is a total decision table over the configuration: Autorefresh
\* iff the refresh rate is positive, Batch iff it is zero and an Epoch
\* selector is set, Incremental iff it is zero and no Epoch selector is set;
\* and every pass of the engine runs the reading function of that mode.
C8_ModeDecisionTable ==
    /\ fetcher.mode \in {"Autorefresh", "Batch", "Incremental"}
    /\ fetcher.mode = "Autorefresh" <=> settings.refresh_rate > 0
    /\ fetcher.mode = "Batch" <=>
          (settings.refresh_rate = 0 /\ settings.epoch.kind # "None")
    /\ fetcher.mode = "Incremental" <=>
          (settings.refresh_rate = 0 /\ settings.epoch.kind = "None")
    /\ pc \in {"read_all_first", "read_all_rest"} => settings.refresh_rate > 0
    /\ pc \in {"read_batches_outer", "read_batches_inner"} =>
          (settings.refresh_rate = 0 /\ settings.epoch.kind # "None")
    /\ pc \in {"read_lines_outer", "read_lines_inner"} =>
          (settings.refresh_rate = 0 /\ settings.epoch.kind = "None")

\* C8 witness: an engine configured with a positive refresh rate and an Epoch
\* selector is in its second pass, reading in Snapshot mode.
C8_Witness ==
    /\ settings.refresh_rate > 0
    /\ settings.epoch.kind # "None"
    /\ pass = 2
    /\ pc = "read_all_rest"

\* ------------------------------------------------------ claims on Schema
Built == test.step \in {"empty_set", "slice", "done"}
Sliced == test.step = "done"

\* The header fields at the positions outside P, in header order.
RECURSIVE Without(_, _, _)
Without(h, P, i) ==
    IF i >= Len(h) THEN <<>>
    ELSE (IF i \in P THEN <<>> ELSE <<h[i + 1]>>) \o Without(h, P, i + 1)

\* The positions the Schema has bound to a role.
BoundPositions(sch) ==
    {sch.x[k].index : k \in 1..Len(sch.x)} \cup {sch.epoch[k].index : k \in 1..Len(sch.epoch)}

\* The positions of the header fields that no selector matches.
SeriesPositions(x, epoch, h) ==
    {i \in 0..(Len(h) - 1) : ~matches(x, h[i + 1], i) /\ ~matches(epoch, h[i + 1], i)}

\* The positions in increasing order.
RECURSIVE Sorted(_)
Sorted(P) ==
    IF P = {} THEN <<>>
    ELSE LET m == CHOOSE m \in P : \A q \in P : m <= q IN <<m>> \o Sorted(P \ {m})

\* C9: for every header and selector pair, the series titles of the Schema
\* are exactly the header fields that the Schema has not bound to X or Epoch,
\* in header order, so their number is the number of header fields minus the
\* number of roles bound.
C9_SeriesTitlesAreUnclaimedFields ==
    Built =>
        LET sch == test.schema[1] IN
        /\ sch.titles = Without(test.titles, BoundPositions(sch), 0)
        /\ Len(sch.titles) = Len(test.titles) - Len(sch.x) - Len(sch.epoch)

\* At most one header field matches the X selector, and at most one of the
\* others matches the Epoch selector.
MatchesUnique ==
    /\ Cardinality({i \in 0..(Len(test.titles) - 1) :
                      matches(test.x, test.titles[i + 1], i)}) <= 1
    /\ Cardinality({i \in 0..(Len(test.titles) - 1) :
                      /\ ~matches(test.x, test.titles[i + 1], i)
                      /\ matches(test.epoch, test.titles[i + 1], i)}) <= 1

\* C9 on the headers in which the selectors match at most one field each
\* (supporting fact, not the claim).
C9_HoldsWhenMatchesUnique ==
    (Built /\ MatchesUnique) =>
        LET sch == test.schema[1] IN
        /\ sch.titles = Without(test.titles, BoundPositions(sch), 0)
        /\ Len(sch.titles) = Len(test.titles) - Len(sch.x) - Len(sch.epoch)

\* C10: for a row with as many fields as the header, the slice holds the
\* cell at the X position as x and the cell at the Epoch position as epoch,
\* unmodified, and y has one value per series title, the k-th being the cell
\* in the column of the k-th series title.
C10_SliceFollowsSchema ==
    (Sliced /\ Len(test.input) = Len(test.titles)) =>
        LET sch == test.schema[1]
            sl == test.slice[1]
            cols == Sorted(SeriesPositions(test.x, test.epoch, test.titles))
        IN /\ sl.x = [k \in 1..Len(sch.x) |-> test.input[sch.x[k].index + 1]]
           /\ sl.epoch = [k \in 1..Len(sch.epoch) |-> test.input[sch.epoch[k].index + 1]]
           /\ Len(sl.y) = Len(sch.titles)
           /\ \A k \in 1..Len(sch.titles) :
                /\ test.titles[cols[k] + 1] = sch.titles[k]
                /\ sl.y[k] = parse_f64_or_nan(test.input[cols[k] + 1])

\* C10 on the headers in which the selectors match at most one field each
\* (supporting fact, not the claim).
C10_HoldsWhenMatchesUnique ==
    (Sliced /\ Len(test.input) = Len(test.titles) /\ MatchesUnique) =>
        LET sch == test.schema[1]
            sl == test.slice[1]
            cols == Sorted(SeriesPositions(test.x, test.epoch, test.titles))
        IN /\ sl.x = [k \in 1..Len(sch.x) |-> test.input[sch.x[k].index + 1]]
           /\ sl.epoch = [k \in 1..Len(sch.epoch) |-> test.input[sch.epoch[k].index + 1]]
           /\ Len(sl.y) = Len(sch.titles)
           /\ \A k \in 1..Len(sch.titles) :
                /\ test.titles[cols[k] + 1] = sch.titles[k]
                /\ sl.y[k] = parse_f64_or_nan(test.input[cols[k] + 1])

\* The number a cell of the rows of SchemaSpec stands for.
ExpectedNumber(cell) ==
    IF cell = Str1("1") THEN F64(1)
    ELSE IF cell = Str2("\t", "2") THEN F64(2)
    ELSE IF cell = Str2("-", "1") THEN Finite(TRUE, <<1>>, 0)
    ELSE NaN

\* C11: a cell that does not parse is no error and drops nothing: every cell
\* of a row outside the X and Epoch positions gives exactly one entry of y,
\* in order, the parsed number or NaN, whatever the other cells of the row are.
C11_UnparsedCellBecomesNaN ==
    Sliced =>
        LET sch == test.schema[1]
            sl == test.slice[1]
            cells == Without(test.input, BoundPositions(sch), 0)
        IN /\ Len(sl.y) = Len(cells)
           /\ \A k \in 1..Len(cells) : sl.y[k] = ExpectedNumber(cells[k])

\* C11 at the level of a pass (supporting fact): a FetchError is on the
\* channel only for a pass whose source could not be acquired or one of whose
\* reads failed, never for the content of a line.
C11_NoFetchErrorFromCells ==
    (pass > 0 /\ KindCount(PassMsgs(pass), "FetchError") > 0) =>
        (ReadFailed \/ AcquireFailed)

\* C11 witness: a sliced row of three cells gave a NaN and a parsed number.
C11_Witness ==
    /\ Sliced
    /\ Len(test.input) = 3
    /\ \E k, j \in 1..Len(test.slice[1].y) :
         test.slice[1].y[k] = NaN /\ test.slice[1].y[j] = F64(2)

\* C12: the empty set of a Schema has one empty series per series title, in
\* the same order; its x is the title of the X role with no values iff the
\* Schema has an X role; its epoch is absent whether or not the Schema has an
\* Epoch role.
C12_EmptySetMirrorsSchema ==
    test.step \in {"slice", "done"} =>
        LET sch == test.schema[1]
            set == test.set[1]
        IN /\ Len(set.y) = Len(sch.titles)
           /\ \A k \in 1..Len(sch.titles) :
                set.y[k].title = sch.titles[k] /\ Len(set.y[k].values) = 0
           /\ IsSome(set.x) <=> IsSome(sch.x)
           /\ IsSome(set.x) =>
                set.x[1].title = sch.x[1].title /\ Len(set.x[1].values) = 0
           /\ Len(set.epoch) = 0

\* C12 witness: the empty set of a Schema with an X role, an Epoch role and
\* a series title.
C12_Witness ==
    /\ test.step = "slice"
    /\ IsSome(test.schema[1].x)
    /\ IsSome(test.schema[1].epoch)
    /\ Len(test.schema[1].titles) >= 1

\* The positions of the header fields that both selectors match.
TiePositions ==
    {i \in 0..(Len(test.titles) - 1) :
        matches(test.x, test.titles[i + 1], i) /\ matches(test.epoch, test.titles[i + 1], i)}

\* C17: X takes precedence on ties: for every header, a field that both
\* selectors match is the field the Schema binds to the X role, and is not
\* the field of the Epoch role; and a Schema with both roles has them at
\* different positions.
C17_TieFieldClaimedByX ==
    Built =>
        LET sch == test.schema[1]
        IN /\ \A i \in TiePositions :
                /\ IsSome(sch.x)
                /\ sch.x[1].index = i
                /\ ~(IsSome(sch.epoch) /\ sch.epoch[1].index = i)
           /\ (IsSome(sch.x) /\ IsSome(sch.epoch)) => sch.x[1].index # sch.epoch[1].index

\* C17 on the headers in which the selectors match at most one field each
\* (supporting fact, not the claim).
C17_HoldsWhenMatchesUnique ==
    (Built /\ MatchesUnique) =>
        LET sch == test.schema[1]
        IN /\ \A i \in TiePositions :
                /\ IsSome(sch.x)
                /\ sch.x[1].index = i
                /\ ~(IsSome(sch.epoch) /\ sch.epoch[1].index = i)
           /\ (IsSome(sch.x) /\ IsSome(sch.epoch)) => sch.x[1].index # sch.epoch[1].index

\* What is left of C17 on every header (supporting fact, not the claim): a
\* field that both selectors match has the title of the X role, is never the
\* field of the Epoch role and never a series title; and the two roles are
\* at different positions.
C17_XWinsTies ==
    Built =>
        LET sch == test.schema[1]
            cols == Sorted(SeriesPositions(test.x, test.epoch, test.titles))
        IN /\ \A i \in TiePositions :
                /\ IsSome(sch.x)
                /\ sch.x[1].title = test.titles[i + 1]
                /\ matches(test.x, sch.x[1].title, sch.x[1].index)
                /\ ~(IsSome(sch.epoch) /\ sch.epoch[1].index = i)
           /\ sch.titles = [k \in 1..Len(cols) |-> test.titles[cols[k] + 1]]
           /\ (IsSome(sch.x) /\ IsSome(sch.epoch)) => sch.x[1].index # sch.epoch[1].index

\* A tie that X wins (supporting): field 0 matches both selectors, and the
\* Schema has both roles, the X role on field 0 and the Epoch role on a
\* later field.
C17_Witness ==
    /\ Built
    /\ 0 \in TiePositions
    /\ IsSome(test.schema[1].x)
    /\ test.schema[1].x[1].index = 0
    /\ IsSome(test.schema[1].epoch)

\* ------------------------------------------- claims on the loop, continued
\* The latest read of the pass failed.
LastReadFailed ==
    Len(source.read) > 0 /\ source.read[Len(source.read)].tag = "Err"

\* C13: the worker thread ends only when a FetchError cannot be
\* delivered, that is, only in a pass whose acquisition or latest read
\* failed; an undeliverable event of a pass does not end it.
C13_OnlyUndeliveredFetchErrorEndsWorker ==
    pc = "panicked" => (AcquireFailed \/ LastReadFailed)

\* What the loop does guarantee (supporting fact, not the claim): the worker
\* thread ends only when a message, a FetchError or an event of a pass,
\* cannot be delivered because the receiver is gone;
\* a worker waiting in recv() with a trigger queued can start a pass, and a
\* pass that delivered its FetchError leaves the worker waiting in recv().
C13_OnlyUndeliveredMessageEndsWorker ==
    /\ pc = "panicked" => ~receiverAlive
    /\ (pc = "recv" /\ toFetcher > 0) => ENABLED worker_recv
    /\ (pass > 0 /\ EndedWithFetchError(pass)) => pc = "recv"

\* The case of C13 that fails: the worker thread ended in a Streaming pass whose latest
\* read gave a line: the message it could not deliver was an event of the pass.
C13_Witness ==
    /\ pc = "panicked"
    /\ fetcher.mode = "Incremental"
    /\ Len(source.read) > 0
    /\ source.read[Len(source.read)].tag = "Ok"

\* C14: a pass puts at most one FetchError on the channel, and nothing of
\* the same pass after it.
C14_FetchErrorOnceAndLast ==
    \A p \in 1..pass :
        /\ KindCount(PassMsgs(p), "FetchError") <= 1
        /\ KindCount(PassMsgs(p), "FetchError") = 1 => EndedWithFetchError(p)

\* C14 witness: a pass sent events and then its FetchError.
C14_Witness ==
    /\ pass > 0
    /\ EndedWithFetchError(pass)
    /\ Len(PassMsgs(pass)) >= 3

\* C16 as stated: Data (the announcement of an empty data set) and DataSlice
\* come from Streaming passes only, and Batched and Snapshot passes deliver
\* their data set with one kind, AppendDataSet, which Streaming does not use.
C16_KindsByModeAsStated ==
    \A k \in 1..Len(toMainLoop) :
        LET m == toMainLoop[k] IN
        /\ m.kind \in {"Data", "DataSlice"} => fetcher.mode = "Incremental"
        /\ m.kind = "AppendDataSet" => fetcher.mode \in {"Batch", "Autorefresh"}

\* The data set has no value in any series and no x value.
IsEmptySet(set) ==
    /\ \A k \in 1..Len(set.y) : Len(set.y[k].values) = 0
    /\ IsSome(set.x) => Len(set.x[1].values) = 0
    /\ Len(set.epoch) = 0

\* C16 as amended: DataSlice comes from Streaming passes only and
\* AppendDataSet from Batched passes only; Data comes from Streaming passes,
\* carrying an empty data set, and from Snapshot passes, which send nothing
\* else but a FetchError.
C16_KindsByMode ==
    \A k \in 1..Len(toMainLoop) :
        LET m == toMainLoop[k] IN
        /\ m.kind = "DataSlice" => fetcher.mode = "Incremental"
        /\ m.kind = "AppendDataSet" => fetcher.mode = "Batch"
        /\ m.kind = "Data" => fetcher.mode \in {"Incremental", "Autorefresh"}
        /\ (m.kind = "Data" /\ fetcher.mode = "Incremental") => IsEmptySet(m.set[1])
        /\ fetcher.mode = "Batch" => m.kind \in {"AppendDataSet", "FetchError"}
        /\ fetcher.mode = "Autorefresh" => m.kind \in {"Data", "FetchError"}

\* C16 witness: a Snapshot pass has delivered a Data whose data set holds values.
C16_Witness ==
    /\ fetcher.mode = "Autorefresh"
    /\ \E k \in 1..Len(toMainLoop) :
         toMainLoop[k].kind = "Data" /\ ~IsEmptySet(toMainLoop[k].set[1])

\* The number of maximal runs of non-empty lines, an end of input between
\* two lines separating them as an empty line does.
Runs(its) ==
    Cardinality({k \in 1..Len(its) :
                    ~IsBoundary(its[k]) /\ (k = 1 \/ IsBoundary(its[k - 1]))})

\* C20: in Streaming and Batched modes an empty line is only a batch
\* boundary: the number of data sets of a pass is the number of maximal runs
\* of non-empty lines of its input.
C20_DatasetsAreRunsOfLines ==
    (fetcher.mode \in {"Incremental", "Batch"} /\ PassReturned
        /\ ~ReadFailed /\ ~AcquireFailed) =>
        DatasetCount(PassMsgs(pass)) = Runs(ItemsRead)

\* Every empty line comes right after a non-empty line.
NoBlankHeader(its) ==
    \A k \in 1..Len(its) :
        (its[k].tag = "Ok" /\ its[k].line = EmptyStr) => (k > 1 /\ ~IsBoundary(its[k - 1]))

\* C20 on the inputs in which every empty line follows a non-empty line
\* (supporting fact, not the claim).
C20_HoldsWithoutBlankHeaders ==
    (fetcher.mode \in {"Incremental", "Batch"} /\ PassReturned
        /\ ~ReadFailed /\ ~AcquireFailed /\ NoBlankHeader(ItemsRead)) =>
        DatasetCount(PassMsgs(pass)) = Runs(ItemsRead)

\* C15: fetch() never blocks: whatever the worker is doing (waiting in
\* recv(), in the middle of a pass, after a failed pass), a caller that has
\* triggers left to issue can complete a fetch(), and while the worker thread
\* is alive the call changes nothing but the trigger channel, which gets one
\* more signal.
C15_FetchNeverBlocks ==
    /\ []((caller = "running" /\ triggers < MaxTriggers) => ENABLED fetch)
    /\ [][(triggers' # triggers /\ pc # "panicked") =>
            /\ toFetcher' = toFetcher + 1
            /\ triggers' = triggers + 1
            /\ UNCHANGED <<config, toMainLoop, receiverAlive, pc, caller, schema,
                           data, source, pass, nreads, test>>]_vars

\* C15 witness: a trigger was queued while a pass was reading lines, after a
\* pass that failed.
C15_Witness ==
    /\ toFetcher = 1
    /\ pass = 2
    /\ pc \in {"read_lines_inner", "read_batches_inner", "read_all_rest"}
    /\ EndedWithFetchError(1)
    /\ caller = "running"

\* ------------------------------------------------ Streaming and Batched
\* read_lines as a function of what lines.next() gives, with the receiver
\* alive: sch is the schema of the batch being read (None at the head of the
\* outer loop), out the messages sent so far.
RECURSIVE read_lines_fold(_, _, _, _, _, _)
read_lines_fold(p, x, epoch, items, sch, out) ==
    IF items = <<>> THEN out
    ELSE LET it == items[1] IN
         IF ~IsSome(sch)
         THEN IF it.tag # "Ok" THEN out
              ELSE LET new == SchemaNew(x, epoch, split(it.line)) IN
                   read_lines_fold(p, x, epoch, Tail(items), Some(new),
                                   send(out, MsgData(p, empty_set(new))))
         ELSE IF IsRegularData(it)
              THEN read_lines_fold(p, x, epoch, Tail(items), sch,
                                   send(out, MsgDataSlice(p, slice(sch[1], split(it.line)))))
              ELSE read_lines_fold(p, x, epoch, Tail(items), None, out)

\* The messages read_lines sends for the given selectors and items.
read_lines_events(p, x, epoch, items) == read_lines_fold(p, x, epoch, items, None, <<>>)

\* The consumer's replay of a Streaming pass: a Data starts a data set, a
\* DataSlice is appended to the latest one.
RECURSIVE Replay(_, _)
Replay(msgs, sets) ==
    IF msgs = <<>> THEN sets
    ELSE LET m == msgs[1] IN
         IF m.kind = "Data"
         THEN Replay(Tail(msgs), Append(sets, m.set[1]))
         ELSE Replay(Tail(msgs),
                     [sets EXCEPT ![Len(sets)] = append_slice(@, m.slice[1])])

\* The data sets carried by the AppendDataSet messages of a pass.
CarriedSets(p) ==
    LET ms == SelectSeq(PassMsgs(p), LAMBDA m : m.kind = "AppendDataSet") IN
    [k \in 1..Len(ms) |-> ms[k].set[1]]

\* C18: Batched groups lines as Streaming does: a Streaming pass sends what
\* read_lines_events gives for the items it read, and the data sets a
\* returned Batched pass carried are the replay of what a Streaming pass with
\* the same X and Epoch selectors sends for the same items.
C18_BatchedIsReplayOfStreaming ==
    /\ (fetcher.mode = "Incremental" /\ pass > 0 /\ pc # "panicked") =>
          DatasetMsgs(pass) = read_lines_events(pass, fetcher.x, fetcher.epoch, source.read)
    /\ (fetcher.mode = "Batch" /\ PassReturned) =>
          CarriedSets(pass) =
             Replay(read_lines_events(pass, fetcher.x, fetcher.epoch, source.read), <<>>)

\* C18 witness: a returned Batched pass carried two data sets, the first one
\* with a row.
C18_Witness ==
    /\ fetcher.mode = "Batch"
    /\ PassReturned
    /\ Len(CarriedSets(pass)) = 2
    /\ ~IsEmptySet(CarriedSets(pass)[1])

\* ------------------------------------------------------ pass per trigger
\* The number of passes that have run to their return.
Completed == IF pc = "recv" THEN pass ELSE pass - 1

\* C19: one pass per trigger: no more passes have started than triggers were
\* issued, and with a fairly scheduled worker, a receiver that stays and
\* sources that end, the n-th trigger leads to the n-th completed pass.
C19_OnePassPerTrigger ==
    /\ [](pass <= triggers)
    /\ \A n \in 1..MaxTriggers : (triggers >= n) ~> (Completed >= n)

\* C19 witness: every trigger of the run has been followed by its pass, the
\* first of which failed, and the worker waits in recv() with nothing queued.
C19_Witness ==
    /\ triggers = MaxTriggers
    /\ Completed = MaxTriggers
    /\ toFetcher = 0
    /\ receiverAlive
    /\ EndedWithFetchError(1)

====
